---------------------------- MODULE Spec2Model ----------------------------
(***************************************************************************)
(* Model of vite-plugin-aurelia-sfc (src/unnamed/part_000, lines 276-830): *)
(* the LRU result cache, the module-level cache / fileTimeCache pair, and  *)
(* the plugin hooks resolveId, load, handleHotUpdate and configureServer.  *)
(*                                                                         *)
(* Strings are sequences of one-character strings, so that endsWith,       *)
(* startsWith, includes and replace are computed as JavaScript computes    *)
(* them.  A value that may be null or a string is a set: {} is null and    *)
(* {s} is the string s.                                                    *)
(***************************************************************************)
EXTENDS Integers, Sequences, FiniteSets, TLC

VARIABLES
  rId,        \* resolveId: the specifier of the first call
  rImporter,  \* resolveId: the importer argument ({} when null/undefined)
  rStage,     \* resolveId: 0 = not called, 1 = called once, 2 = called on its own result
  rOut1,      \* resolveId: result of the first call
  rOut2,      \* resolveId: result of the call on the first result
  cache,      \* LRUCache.cache: the Map's entries [k, v] in insertion order
  maxSize,    \* LRUCache.maxSize
  lruClock,   \* history: number of get hits and sets made on the cache so far
  lruUsed,    \* history: key -> value of lruClock at its last get hit or set
  lruLast,    \* history: the last call made on the cache and what it returned
  fs,         \* the file system: path -> [code, mtime] for the files that exist
  fileTimeCache, \* const fileTimeCache: path -> recorded modification time
  pending,    \* load calls suspended at `await processCss(...)`
  last,       \* history: the last hook call that completed and what it returned
  hist,       \* history: file states loaded so far, ids loaded since configureServer
  sRule,      \* scopeStyles: the parts the css argument is written from
  sStage,     \* scopeStyles: 0 = not called, 1 = called
  sOut,       \* scopeStyles: the returned css
  mScript,    \* load, module branch: the lines of the script section
  mTemplate,  \* load, module branch: the text of the template section
  mStage,     \* load, module branch: 0 = not synthesized, 1 = synthesized
  mOut        \* load, module branch: what the synthesis computed

rvars == <<rId, rImporter, rStage, rOut1, rOut2>>
lvars == <<cache, maxSize, lruClock, lruUsed, lruLast>>
pvars == <<fs, fileTimeCache, pending, last, hist>>
svars == <<sRule, sStage, sOut>>
mvars == <<mScript, mTemplate, mStage, mOut>>
vars == <<rId, rImporter, rStage, rOut1, rOut2,
          cache, maxSize, lruClock, lruUsed, lruLast,
          fs, fileTimeCache, pending, last, hist,
          sRule, sStage, sOut,
          mScript, mTemplate, mStage, mOut>>

-----------------------------------------------------------------------------
(* JavaScript string primitives on character sequences *)

Null == {}
Str(s) == {s}
Val(o) == CHOOSE s \in o : TRUE

\* `x || ''` for x null, undefined or a string
OrEmpty(o) == IF o = Null THEN <<>> ELSE Val(o)

StartsWith(s, p) == Len(p) <= Len(s) /\ SubSeq(s, 1, Len(p)) = p

\* mutant: the suffix is accepted anywhere in the string
EndsWith_Anywhere(s, p) ==
  \E i \in 1..(Len(s) - Len(p) + 1) : SubSeq(s, i, i + Len(p) - 1) = p

EndsWith(s, p) == Len(p) <= Len(s) /\ SubSeq(s, Len(s) - Len(p) + 1, Len(s)) = p

\* 1-based position of the first occurrence of p in s, 0 when there is none
IndexOf(s, p) ==
  LET hits == {i \in 1..(Len(s) - Len(p) + 1) : SubSeq(s, i, i + Len(p) - 1) = p}
  IN IF hits = {} THEN 0 ELSE CHOOSE i \in hits : \A j \in hits : i <= j

Includes(s, p) == IndexOf(s, p) # 0

\* String.prototype.replace with a string pattern: the first occurrence only
ReplaceFirst(s, p, r) ==
  LET i == IndexOf(s, p)
  IN IF i = 0 THEN s
     ELSE SubSeq(s, 1, i - 1) \o r \o SubSeq(s, i + Len(p), Len(s))

RECURSIVE Concat(_)
Concat(ss) == IF ss = <<>> THEN <<>> ELSE Head(ss) \o Concat(Tail(ss))

VIRTUAL == <<"v", "i", "r", "t", "u", "a", "l", ":">>
AU == <<".", "a", "u">>
CSS == <<".", "c", "s", "s">>
AU_CSS == AU \o CSS
DOT_SLASH == <<".", "/">>
DOTDOT_SLASH == <<".", ".", "/">>

-----------------------------------------------------------------------------
(* node:path (posix) as used by resolveId *)

\* process.cwd(): an absolute, normalised directory
Cwd == <<"/", "w">>

\* the "/"-separated segments of a path, empty segments included
RECURSIVE Segments(_)
Segments(s) ==
  LET i == IndexOf(s, <<"/">>)
  IN IF i = 0 THEN <<s>>
     ELSE <<SubSeq(s, 1, i - 1)>> \o Segments(SubSeq(s, i + 1, Len(s)))

RECURSIVE JoinSegs(_)
JoinSegs(segs) ==
  IF segs = <<>> THEN <<>>
  ELSE IF Len(segs) = 1 THEN segs[1]
  ELSE segs[1] \o <<"/">> \o JoinSegs(Tail(segs))

\* normalizeString: drop "" and ".", let ".." remove the segment before it;
\* above the root ".." is dropped (allowAboveRoot = false)
RECURSIVE NormalizeSegs(_, _)
NormalizeSegs(segs, acc) ==
  IF segs = <<>> THEN acc
  ELSE LET h == Head(segs) IN
       IF h = <<>> \/ h = <<".">> THEN NormalizeSegs(Tail(segs), acc)
       ELSE IF h = <<".", ".">>
         THEN NormalizeSegs(Tail(segs),
                IF acc = <<>> THEN acc ELSE SubSeq(acc, 1, Len(acc) - 1))
       ELSE NormalizeSegs(Tail(segs), Append(acc, h))

\* path.dirname(p)
PathDirname(p) ==
  IF Len(p) = 0 THEN <<".">>
  ELSE LET ends == {i \in 2..Len(p) :
                      p[i] = "/" /\ \E j \in (i + 1)..Len(p) : p[j] # "/"}
           hasRoot == p[1] = "/"
       IN IF ends = {} THEN (IF hasRoot THEN <<"/">> ELSE <<".">>)
          ELSE LET e == CHOOSE i \in ends : \A j \in ends : j <= i
               IN IF hasRoot /\ e = 2 THEN <<"/", "/">> ELSE SubSeq(p, 1, e - 1)

\* path.resolve(from, to): the arguments are taken right to left until one
\* is absolute, then the working directory; the result is normalised
PathResolve(from, to) ==
  LET r1 == IF Len(to) = 0 THEN <<>> ELSE to \o <<"/">>
      abs1 == Len(to) > 0 /\ to[1] = "/"
      r2 == IF abs1 \/ Len(from) = 0 THEN r1 ELSE from \o <<"/">> \o r1
      abs2 == abs1 \/ (Len(from) > 0 /\ from[1] = "/")
      r3 == IF abs2 THEN r2 ELSE Cwd \o <<"/">> \o r2
  IN <<"/">> \o JoinSegs(NormalizeSegs(Segments(r3), <<>>))

-----------------------------------------------------------------------------
(* resolveId *)

\* mutant: only './' counts as relative
IsRelative_DotSlashOnly(s) == StartsWith(s, DOT_SLASH)

\* `x.startsWith('./') || x.startsWith('../')`
IsRelative(s) == StartsWith(s, DOT_SLASH) \/ StartsWith(s, DOTDOT_SLASH)

resolveId(id, importer) ==
  IF EndsWith(id, AU_CSS)
  THEN LET auFile == ReplaceFirst(id, CSS, <<>>) IN
       IF IsRelative(auFile)
       THEN Str(VIRTUAL \o PathResolve(PathDirname(OrEmpty(importer)), auFile) \o CSS)
       ELSE Str(VIRTUAL \o id)
  ELSE IF EndsWith(id, AU)
  THEN IF IsRelative(id)
       THEN Str(VIRTUAL \o PathResolve(PathDirname(OrEmpty(importer)), id))
       ELSE Str(VIRTUAL \o id)
  ELSE Null

-----------------------------------------------------------------------------
(* class LRUCache: a Map iterates its keys in insertion order, so the       *)
(* entries are a sequence whose head is the first key of the Map            *)

CacheKeys(c) == {c[i].k : i \in 1..Len(c)}

\* Map.prototype.has
CacheHas(c, key) == key \in CacheKeys(c)

\* Map.prototype.get: {} for undefined
CacheValue(c, key) == {c[i].v : i \in {j \in 1..Len(c) : c[j].k = key}}

\* Map.prototype.delete
CacheDelete(c, key) == SelectSeq(c, LAMBDA e : e.k # key)

\* mutant: a hit returns the value without moving the entry to the end
LRUGet_NoPromote(c, key) == c

\* LRUCache.get(key): the cache after the call
LRUGet(c, key) ==
  IF CacheHas(c, key)
  THEN Append(CacheDelete(c, key), [k |-> key, v |-> Val(CacheValue(c, key))])
  ELSE c

\* mutant: evicts only once the size is above the capacity
LRUSet_EvictLate(c, max, key, value) ==
  IF CacheHas(c, key)
  THEN Append(CacheDelete(c, key), [k |-> key, v |-> value])
  ELSE IF Len(c) > max
  THEN Append(Tail(c), [k |-> key, v |-> value])
  ELSE Append(c, [k |-> key, v |-> value])

\* LRUCache.set(key, value): the cache after the call
LRUSet(c, max, key, value) ==
  IF CacheHas(c, key)
  THEN Append(CacheDelete(c, key), [k |-> key, v |-> value])
  ELSE IF Len(c) >= max
  THEN Append(IF c = <<>> THEN c ELSE Tail(c), [k |-> key, v |-> value])
  ELSE Append(c, [k |-> key, v |-> value])

\* LRUCache.has(key)
LRUHas(c, key) == CacheHas(c, key)

\* LRUCache.clear()
LRUClear(c) == <<>>

-----------------------------------------------------------------------------
(* The LRUCache specification: a cache constructed with a capacity of       *)
(* 1..MaxCapacity and any sequence of get, set, has and clear calls         *)

MaxCapacity == 3
MaxUses == 4

Digits == <<"0", "1", "2", "3", "4", "5", "6", "7", "8", "9">>

\* one key more than the largest capacity
LruKeys == {<<Digits[i]>> : i \in 1..(MaxCapacity + 1)}
LruValues == {<<"x">>, <<"y">>}

InitLRU ==
  /\ maxSize \in 1..MaxCapacity
  /\ cache = <<>>
  /\ lruClock = 0
  /\ lruUsed = [key \in LruKeys |-> 0]
  /\ lruLast = [op |-> "new", key |-> <<>>, ret |-> Null, evicted |-> {}]
  /\ rId = <<>> /\ rImporter = Null /\ rStage = 0 /\ rOut1 = Null /\ rOut2 = Null
  /\ fs = <<>> /\ fileTimeCache = <<>> /\ pending = {} /\ last = <<>> /\ hist = <<>>
  /\ sRule = <<>> /\ sStage = 0 /\ sOut = <<>>
  /\ mScript = <<>> /\ mTemplate = <<>> /\ mStage = 0 /\ mOut = <<>>

LruGet(key) ==
  /\ lruClock < MaxUses
  /\ cache' = LRUGet(cache, key)
  /\ lruLast' = [op |-> "get", key |-> key, ret |-> CacheValue(cache, key),
                 evicted |-> CacheKeys(cache) \ CacheKeys(cache')]
  /\ IF CacheHas(cache, key)
     THEN /\ lruClock' = lruClock + 1
          /\ lruUsed' = [lruUsed EXCEPT ![key] = lruClock + 1]
     ELSE UNCHANGED <<lruClock, lruUsed>>
  /\ UNCHANGED <<maxSize, rvars, pvars, svars, mvars>>

LruSet(key, value) ==
  /\ lruClock < MaxUses
  /\ cache' = LRUSet(cache, maxSize, key, value)
  /\ lruLast' = [op |-> "set", key |-> key, ret |-> Null,
                 evicted |-> CacheKeys(cache) \ CacheKeys(cache')]
  /\ lruClock' = lruClock + 1
  /\ lruUsed' = [lruUsed EXCEPT ![key] = lruClock + 1]
  /\ UNCHANGED <<maxSize, rvars, pvars, svars, mvars>>

LruHas(key) ==
  /\ cache' = cache
  /\ lruLast' = [op |-> "has", key |-> key,
                 ret |-> IF LRUHas(cache, key) THEN {<<"true">>} ELSE {<<"false">>},
                 evicted |-> {}]
  /\ UNCHANGED <<maxSize, lruClock, lruUsed, rvars, pvars, svars, mvars>>

LruClear ==
  /\ cache' = LRUClear(cache)
  /\ lruLast' = [op |-> "clear", key |-> <<>>, ret |-> Null, evicted |-> CacheKeys(cache)]
  /\ UNCHANGED <<maxSize, lruClock, lruUsed, rvars, pvars, svars, mvars>>

NextLRU ==
  \/ \E key \in LruKeys : LruGet(key)
  \/ \E key \in LruKeys, value \in LruValues : LruSet(key, value)
  \/ \E key \in LruKeys : LruHas(key)
  \/ LruClear

SpecLRU == InitLRU /\ [][NextLRU]_vars

-----------------------------------------------------------------------------
(* The resolveId specification: one call, then a call on its own result *)

MaxPieces == 3

Pieces ==
  { DOT_SLASH, DOTDOT_SLASH, <<"/">>, <<"c">>, <<"s">>, AU, CSS, VIRTUAL,
    <<".", "j", "s">> }

S_DOT_C_AU == <<".", "/", "c", ".", "a", "u">>
S_UP_SHARED_C_AU == <<".", ".", "/", "s", "h", "a", "r", "e", "d", "/", "c", ".", "a", "u">>
S_C_AU == <<"c", ".", "a", "u">>
S_DOT_C_AU_CSS == <<".", "/", "c", ".", "a", "u", ".", "c", "s", "s">>
S_DOT_C_JS == <<".", "/", "c", ".", "j", "s">>
S_DOT_C_CSS_AU_CSS == <<".", "/", "c", ".", "c", "s", "s", ".", "a", "u", ".", "c", "s", "s">>
S_DOT_S_CSS_C_AU_CSS == <<".", "/", "s", ".", "c", "s", "s", "/", "c", ".", "a", "u", ".", "c", "s", "s">>
I_SRC_INDEX == <<"/", "s", "r", "c", "/", "i", "n", "d", "e", "x", ".", "j", "s">>
I_SRC_COMPONENTS_INDEX == <<"/", "s", "r", "c", "/", "c", "o", "m", "p", "o", "n", "e", "n", "t", "s", "/", "i", "n", "d", "e", "x", ".", "j", "s">>
I_INDEX == <<"i", "n", "d", "e", "x", ".", "j", "s">>
I_ROOT_INDEX == <<"/", "i", "n", "d", "e", "x", ".", "j", "s">>
I_VIRTUAL_SRC_C_AU == <<"v", "i", "r", "t", "u", "a", "l", ":", "/", "s", "r", "c", "/", "c", ".", "a", "u">>
V_SRC_C_AU == <<"v", "i", "r", "t", "u", "a", "l", ":", "/", "s", "r", "c", "/", "c", ".", "a", "u">>
V_SRC_SHARED_C_AU == <<"v", "i", "r", "t", "u", "a", "l", ":", "/", "s", "r", "c", "/", "s", "h", "a", "r", "e", "d", "/", "c", ".", "a", "u">>
V_C_AU == <<"v", "i", "r", "t", "u", "a", "l", ":", "c", ".", "a", "u">>
V_SRC_C_AU_CSS == <<"v", "i", "r", "t", "u", "a", "l", ":", "/", "s", "r", "c", "/", "c", ".", "a", "u", ".", "c", "s", "s">>
V_V_SRC_C_AU == <<"v", "i", "r", "t", "u", "a", "l", ":", "v", "i", "r", "t", "u", "a", "l", ":", "/", "s", "r", "c", "/", "c", ".", "a", "u">>

\* the specifiers of the repository's tests and documentation, and the style
\* specifiers of a component whose base name or directory contains '.css'
ExampleSpecifiers ==
  { S_DOT_C_AU, S_UP_SHARED_C_AU, S_C_AU, S_DOT_C_AU_CSS, S_DOT_C_JS,
    S_DOT_C_CSS_AU_CSS, S_DOT_S_CSS_C_AU_CSS }

Specifiers ==
  ExampleSpecifiers \cup
  UNION { { Concat(f) : f \in [1..n -> Pieces] } : n \in 1..MaxPieces }

Importers ==
  { Null, Str(<<>>), Str(I_SRC_INDEX), Str(I_SRC_COMPONENTS_INDEX),
    Str(I_INDEX), Str(I_ROOT_INDEX), Str(I_VIRTUAL_SRC_C_AU) }

InitResolve ==
  /\ rId \in Specifiers
  /\ rImporter \in Importers
  /\ rStage = 0
  /\ rOut1 = Null
  /\ rOut2 = Null
  /\ cache = <<>> /\ maxSize = 0 /\ lruClock = 0 /\ lruUsed = <<>>
  /\ lruLast = <<>>
  /\ fs = <<>> /\ fileTimeCache = <<>> /\ pending = {} /\ last = <<>> /\ hist = <<>>
  /\ sRule = <<>> /\ sStage = 0 /\ sOut = <<>>
  /\ mScript = <<>> /\ mTemplate = <<>> /\ mStage = 0 /\ mOut = <<>>

\* the host calls resolveId(rId, rImporter)
ResolveFirst ==
  /\ rStage = 0
  /\ rOut1' = resolveId(rId, rImporter)
  /\ rStage' = 1
  /\ UNCHANGED <<rId, rImporter, rOut2, lvars, pvars, svars, mvars>>

\* the host calls resolveId on the id the first call returned
ResolveAgain ==
  /\ rStage = 1
  /\ rOut1 # Null
  /\ rOut2' = resolveId(Val(rOut1), rImporter)
  /\ rStage' = 2
  /\ UNCHANGED <<rId, rImporter, rOut1, lvars, pvars, svars, mvars>>

NextResolve == ResolveFirst \/ ResolveAgain

SpecResolve == InitResolve /\ [][NextResolve]_vars

-----------------------------------------------------------------------------
(* Claims about resolveId *)

\* C9 (as claimed): resolveId is idempotent: when resolveId(s, i) returns a
\* non-null id v, resolveId(v, i) returns v again.
C9_ResolveIdempotent == rStage = 2 => rOut2 = rOut1

\* The importer's directory as a list of segments below the root: the
\* importer without its last segment, taken from the working directory when
\* the importer is missing or not absolute.
ImporterDirSegs(importer) ==
  LET imp == IF importer = Null THEN <<>> ELSE Val(importer)
      segs == Segments(imp)
      dir == SubSeq(segs, 1, Len(segs) - 1)
  IN IF Len(imp) > 0 /\ imp[1] = "/" THEN dir ELSE Segments(Cwd) \o dir

\* Normalisation of a segment list read from its end: a ".." cancels the
\* nearest name before it, "." and empty segments vanish.
RECURSIVE Canonical(_, _)
Canonical(segs, skip) ==
  IF segs = <<>> THEN <<>>
  ELSE LET l == segs[Len(segs)]
           front == SubSeq(segs, 1, Len(segs) - 1)
       IN IF l = <<>> \/ l = <<".">> THEN Canonical(front, skip)
          ELSE IF l = <<".", ".">> THEN Canonical(front, skip + 1)
          ELSE IF skip > 0 THEN Canonical(front, skip - 1)
          ELSE Append(Canonical(front, 0), l)

ResolvedAgainst(importer, spec) ==
  <<"/">> \o JoinSegs(Canonical(ImporterDirSegs(importer) \o Segments(spec), 0))

StartsRelative(s) ==
  \/ (Len(s) >= 2 /\ s[1] = "." /\ s[2] = "/")
  \/ (Len(s) >= 3 /\ s[1] = "." /\ s[2] = "." /\ s[3] = "/")

\* C10: for a specifier ending in .au that starts with ./ or ../, resolveId
\* returns 'virtual:' followed by the specifier resolved against the
\* importer's directory, . and .. segments normalised; for any other
\* specifier ending in .au it returns 'virtual:' followed by the specifier
\* unchanged.
C10_ResolveAu ==
  (rStage >= 1 /\ EndsWith(rId, AU)) =>
    rOut1 = Str(VIRTUAL \o (IF StartsRelative(rId)
                              THEN ResolvedAgainst(rImporter, rId)
                              ELSE rId))

\* C10 witness: '../shared/c.au' imported from '/src/components/index.js'
\* has been resolved to 'virtual:/src/shared/c.au'.
C10_Witness ==
  /\ rStage >= 1
  /\ rId = S_UP_SHARED_C_AU
  /\ rImporter = Str(I_SRC_COMPONENTS_INDEX)
  /\ rOut1 = Str(V_SRC_SHARED_C_AU)

\* s is some string followed by suffix
HasSuffix(s, suffix) == \E k \in 0..Len(s) : s = SubSeq(s, 1, k) \o suffix

\* s without its last n characters
DropLast(s, n) == SubSeq(s, 1, Len(s) - n)

\* C11 (as claimed): the style id of the component at path P is
\* 'virtual:' + P + '.css' for every P, also when P contains '.css':
\* resolveId of a relative specifier naming P + '.css' returns 'virtual:'
\* followed by P resolved against the importer's directory and '.css'.
C11_StyleIdExact ==
  (rStage >= 1 /\ HasSuffix(rId, AU_CSS) /\ StartsRelative(rId)) =>
    rOut1 = Str(VIRTUAL \o ResolvedAgainst(rImporter, DropLast(rId, Len(CSS))) \o CSS)

\* C12: resolveId returns null for every specifier that ends in neither .au
\* nor .au.css, and for every specifier and every importer, null and the
\* empty string included, it returns null or a string and does not throw.
C12_NullForOthers ==
  rStage >= 1 =>
    /\ (~HasSuffix(rId, AU) /\ ~HasSuffix(rId, AU_CSS)) => rOut1 = Null
    /\ rOut1 = Null \/ \E s \in rOut1 : rOut1 = Str(s) /\ StartsWith(s, VIRTUAL)

\* C12 witness: a specifier that contains '.au' without ending in it, with
\* a null importer, has been resolved to null.
C12_Witness ==
  /\ rStage >= 1
  /\ rImporter = Null
  /\ Includes(rId, AU) /\ ~HasSuffix(rId, AU)
  /\ StartsRelative(rId)
  /\ rOut1 = Null

-----------------------------------------------------------------------------
(* Claims about LRUCache *)

\* C6: after any sequence of get, set, has and clear calls on a cache
\* constructed with capacity N >= 1, the number of stored entries never
\* exceeds N.
C6_CacheBounded == Len(cache) <= maxSize

\* C6 witness: a set of a new key on a full cache has evicted an entry and
\* left the cache exactly full.
C6_Witness ==
  /\ lruLast.op = "set"
  /\ lruLast.evicted # {}
  /\ Len(cache) = maxSize

\* the keys of c that were used least recently, by the recorded use times
OldestUsed(c) ==
  {e \in CacheKeys(c) : \A o \in CacheKeys(c) : lruUsed[e] <= lruUsed[o]}

\* C7: least-recently-used order.  A get that hits and a set on an existing
\* key evict nothing and keep the entry count; has changes nothing; a set of
\* a new key on a full cache evicts exactly one entry, the one whose last
\* get hit or set is the oldest; no other call removes an entry except clear.
C7_LruOrder ==
  [][ /\ (lruLast'.op = "get" /\ CacheHas(cache, lruLast'.key)) =>
           /\ CacheKeys(cache') = CacheKeys(cache)
           /\ Len(cache') = Len(cache)
           /\ lruLast'.ret = CacheValue(cache, lruLast'.key)
      /\ (lruLast'.op = "get" /\ ~CacheHas(cache, lruLast'.key)) =>
           /\ cache' = cache
           /\ lruLast'.ret = Null
      /\ (lruLast'.op = "set" /\ CacheHas(cache, lruLast'.key)) =>
           /\ CacheKeys(cache') = CacheKeys(cache)
           /\ Len(cache') = Len(cache)
      /\ lruLast'.op = "has" => cache' = cache
      /\ (lruLast'.op = "set" /\ ~CacheHas(cache, lruLast'.key)
            /\ Len(cache) < maxSize) =>
           CacheKeys(cache') = CacheKeys(cache) \cup {lruLast'.key}
      /\ (lruLast'.op = "set" /\ ~CacheHas(cache, lruLast'.key)
            /\ Len(cache) = maxSize) =>
           \E e \in OldestUsed(cache) :
             /\ CacheKeys(cache') = (CacheKeys(cache) \ {e}) \cup {lruLast'.key}
             /\ Len(cache') = Len(cache)
    ]_vars

\* C7 witness: on a full cache of at least two entries, a set of a new key
\* has evicted exactly one entry while an entry stored before it, refreshed
\* since, is still there.
C7_Witness ==
  /\ lruLast.op = "set"
  /\ maxSize >= 2
  /\ Len(cache) = maxSize
  /\ \E e \in lruLast.evicted :
       /\ lruLast.evicted = {e}
       /\ \E g \in CacheKeys(cache) \ {lruLast.key} :
            lruUsed[g] > lruUsed[e] + 1

-----------------------------------------------------------------------------
(* The plugin: files, configurations, cache keys and compiled texts *)

\* const cache = new LRUCache(200)
CacheCapacity == 200

P_A == <<"/", "a", ".", "a", "u">>
P_B == <<"/", "b", ".", "a", "u">>
P_A_JS == <<"/", "a", ".", "j", "s">>

\* every path a cache key is ever derived from, in a fixed order
KeyPaths == <<P_A, P_B>>

ID_A == VIRTUAL \o P_A
ID_A_CSS == VIRTUAL \o P_A \o CSS
ID_B_CSS == VIRTUAL \o P_B \o CSS

\* the ids the host passes to load: the module and the style id of /a.au,
\* the style id of a file that does not exist, and an id that is not virtual
LoadIds == {ID_A, ID_A_CSS, ID_B_CSS, P_A}

\* the files the host reports to handleHotUpdate
HotFiles == {P_A, P_A_JS}

(* Component documents.  code is the index of the file's text in Docs; a   *)
(* style section is [lang, scoped, css], css naming the trimmed inner text *)
(* ("" when it is empty, "bad" when the preprocessor rejects it).           *)
Docs ==
  << [script |-> TRUE, template |-> TRUE, styles |-> <<>>],
     [script |-> TRUE, template |-> TRUE,
      styles |-> <<[lang |-> "css", scoped |-> FALSE, css |-> "a"]>>],
     [script |-> TRUE, template |-> TRUE,
      styles |-> <<[lang |-> "scss", scoped |-> TRUE, css |-> "b"]>>],
     [script |-> FALSE, template |-> TRUE, styles |-> <<>>],
     [script |-> TRUE, template |-> TRUE,
      styles |-> <<[lang |-> "scss", scoped |-> FALSE, css |-> "bad"]>>],
     [script |-> TRUE, template |-> TRUE,
      styles |-> <<[lang |-> "css", scoped |-> TRUE, css |-> "a"],
                   [lang |-> "scss", scoped |-> FALSE, css |-> "b"]>>],
     [script |-> TRUE, template |-> FALSE, styles |-> <<>>],
     [script |-> TRUE, template |-> TRUE,
      styles |-> <<[lang |-> "custom", scoped |-> FALSE, css |-> "a"]>>],
     [script |-> TRUE, template |-> TRUE,
      styles |-> <<[lang |-> "stylus", scoped |-> FALSE, css |-> "bad"]>>] >>

Codes == 1..Len(Docs)

\* fileStats.size: the length of the file's text
DocSize(code) == 2 + Len(Docs[code].styles)

\* the language tags of style sections: the built-in ones and an unknown one
Langs == {"css", "scss", "sass", "stylus", "less", "custom"}

(* Plugin configurations: pre is options.style.preprocessors, from         *)
(* language tags to the names of the user-supplied functions, "none" where *)
(* no function is given.  The function "f" returns a stylesheet, "g"       *)
(* throws on the text "bad".                                               *)
NoOptions == [pre |-> [L \in Langs |-> "none"]]

WithPreprocessor(lang, fn) == [pre |-> [L \in Langs |-> IF L = lang THEN fn ELSE "none"]]

Configs ==
  { NoOptions, WithPreprocessor("scss", "f"), WithPreprocessor("scss", "g"),
    WithPreprocessor("css", "f"), WithPreprocessor("custom", "f") }

\* JSON.stringify(pluginOptions): regular expressions become {} and
\* function-valued properties are left out, so only the presence of the
\* preprocessors object shows
OptionsStr(options) ==
  IF \A L \in Langs : options.pre[L] = "none"
  THEN <<"{", "}">> ELSE <<"{", "p", "}">>

OptionsStrs == <<OptionsStr(NoOptions), OptionsStr(WithPreprocessor("scss", "f"))>>

Hex == Digits \o <<"a", "b", "c", "d", "e", "f">>

IndexIn(seq, x) == CHOOSE i \in 1..Len(seq) : seq[i] = x

\* createHash('md5').update(...).digest('hex'): a string of hexadecimal
\* digits, taken to be collision free: one digit per part of the input
Digest(filePath, optionsStr, code, mtime, size) ==
  << Hex[IndexIn(KeyPaths, filePath)], Hex[IndexIn(OptionsStrs, optionsStr)],
     Hex[code], Hex[mtime], Hex[size] >>

\* mutant: the key leaves out the file's stats
getCacheKey_NoStats(filePath, options, code, fileStats) ==
  Digest(filePath, OptionsStr(options), code, 1, 1)

\* mutant: the key leaves out the file's text
getCacheKey_NoText(filePath, options, code, fileStats) ==
  Digest(filePath, OptionsStr(options), 1, fileStats.mtime, fileStats.size)

\* getCacheKey(filePath, options, content, fileStats)
getCacheKey(filePath, options, code, fileStats) ==
  Digest(filePath, OptionsStr(options), code, fileStats.mtime, fileStats.size)

\* the parts of the input a key was derived from
KeyFilePath(key) == KeyPaths[IndexIn(Hex, key[1])]
KeyCode(key) == IndexIn(Hex, key[3])
KeyMtime(key) == IndexIn(Hex, key[4])

\* statSync(path)
StatSync(files, path) ==
  [mtime |-> files[path].mtime, size |-> DocSize(files[path].code)]

\* existsSync(path)
ExistsSync(files, path) == path \in DOMAIN files

\* generateScopeId(filePath)
generateScopeId(filePath) ==
  <<"d", "a", "t", "a", "-", "v", "-">> \o <<Hex[IndexIn(KeyPaths, filePath)]>>

\* mutant: the module's scope attribute is derived from the file's text
ModuleText_ScopeOfText(filePath, code) ==
  <<[t |-> "module", path |-> filePath, code |-> code,
     scope |-> IF \E i \in 1..Len(Docs[code].styles) : Docs[code].styles[i].scoped
               THEN <<"d", "a", "t", "a", "-", "v", "-">> \o <<Hex[code]>>
               ELSE <<>>]>>

(* Texts are sequences of tokens; the empty string is <<>>.  The module    *)
(* text is one token naming the file and the document it was synthesized   *)
(* from, with the scope attribute injectScopeAttribute puts on the         *)
(* template's top-level elements (<<>> when hasScoped is false, that is,   *)
(* when no style section is scoped); a stylesheet is one token per style   *)
(* section.                                                                *)
ModuleText(filePath, code) ==
  LET hasScoped == \E i \in 1..Len(Docs[code].styles) : Docs[code].styles[i].scoped
  IN <<[t |-> "module", path |-> filePath, code |-> code,
        scope |-> IF hasScoped THEN generateScopeId(filePath) ELSE <<>>]>>

IsModuleText(text) == text # <<>> /\ text[1].t = "module"

\* processCss(css, lang, styleOptions): {} when it throws, else the CSS
processCss(css, lang, options) ==
  IF lang \in DOMAIN options.pre /\ options.pre[lang] # "none"
  THEN IF options.pre[lang] = "g" /\ css = "bad" THEN {}
       ELSE {[t |-> "css", css |-> css, by |-> options.pre[lang], scope |-> <<>>]}
  ELSE IF lang \in {"scss", "sass"}
  THEN IF css = "bad" THEN {}
       ELSE {[t |-> "css", css |-> css, by |-> "sass", scope |-> <<>>]}
  ELSE IF lang = "stylus"
  THEN IF css = "bad" THEN {}
       ELSE {[t |-> "css", css |-> css, by |-> "stylus", scope |-> <<>>]}
  ELSE {[t |-> "css", css |-> css, by |-> "none", scope |-> <<>>]}

\* scopeStyles(css, scopeId)
scopeStyles(css, scopeId) == [css EXCEPT !.scope = scopeId]

PlainCss(css) == [t |-> "css", css |-> css, by |-> "none", scope |-> <<>>]

-----------------------------------------------------------------------------
(* shouldRecompile and load *)

\* fileTimeCache.get / set / delete on a function whose domain is the keys
TimeGet(times, path) == IF path \in DOMAIN times THEN {times[path]} ELSE {}
TimeSet(times, path, time) ==
  [q \in DOMAIN times \cup {path} |-> IF q = path THEN time ELSE times[q]]
TimeDelete(times, path) == [q \in DOMAIN times \ {path} |-> times[q]]

\* shouldRecompile(filePath, cacheKey): its result and fileTimeCache after it
shouldRecompile(c, times, files, filePath, cacheKey) ==
  IF ~LRUHas(c, cacheKey) THEN [recompile |-> TRUE, times |-> times]
  ELSE LET stats == StatSync(files, filePath)
           cachedTime == TimeGet(times, filePath)
       IN IF cachedTime = {} \/ Val(cachedTime) = 0
             \/ stats.mtime > Val(cachedTime)
          THEN [recompile |-> TRUE, times |-> TimeSet(times, filePath, stats.mtime)]
          ELSE [recompile |-> FALSE, times |-> times]

\* validateSFCStructure: TRUE when it throws
MissingSection(code) == ~Docs[code].script \/ ~Docs[code].template

(* The loop over the style tags from tag idx on, up to the first           *)
(* `await processCss` or the end of the loop.  The '\n' that               *)
(* `finalCss += (finalCss ? '\n' : '') + css` puts between the CSS of two   *)
(* sections is the token newline.                                          *)
RECURSIVE RunStyles(_, _, _, _)
RunStyles(styles, idx, finalCss, auFilePath) ==
  IF idx > Len(styles) THEN [await |-> FALSE, idx |-> idx, css |-> finalCss]
  ELSE LET tag == styles[idx] IN
       IF tag.css = "" THEN RunStyles(styles, idx + 1, finalCss, auFilePath)
       ELSE IF tag.lang # "css" THEN [await |-> TRUE, idx |-> idx, css |-> finalCss]
       ELSE LET css == IF tag.scoped
                         THEN scopeStyles(PlainCss(tag.css), generateScopeId(auFilePath))
                         ELSE PlainCss(tag.css)
                newline == IF finalCss # <<>>
                             THEN <<[t |-> "newline", css |-> "", by |-> "none", scope |-> <<>>]>>
                             ELSE <<>>
            IN RunStyles(styles, idx + 1, finalCss \o newline \o <<css>>, auFilePath)

NoFile == [code |-> 0, mtime |-> 0]

Returned(text) == [kind |-> "text", text |-> text]
ReturnedNull == [kind |-> "null", text |-> <<>>]
Thrown == [kind |-> "error", text |-> <<>>]
ReturnedUndefined == [kind |-> "undefined", text |-> <<>>]

\* what a load call does up to its return, its throw or its first await
Outcome(c, times, ret, recompiled, path, file, park) ==
  [cache |-> c, times |-> times, ret |-> ret, recompiled |-> recompiled,
   file |-> file, park |-> park]

\* load(id), style branch (filePath ends in .au.css)
LoadStyle(c, times, files, options, id, filePath) ==
  LET auFilePath == ReplaceFirst(filePath, CSS, <<>>) IN
  IF ~ExistsSync(files, auFilePath)
  THEN Outcome(c, times, Thrown, FALSE, auFilePath, NoFile, {})
  ELSE
    LET code == files[auFilePath].code
        fileStats == StatSync(files, auFilePath)
        cacheKey == getCacheKey(auFilePath, options, code, fileStats)
        sr == shouldRecompile(c, times, files, auFilePath, cacheKey)
        file == files[auFilePath]
        styleTags == Docs[code].styles
    IN IF ~sr.recompile
       THEN Outcome(LRUGet(c, cacheKey), sr.times,
                    Returned(Val(CacheValue(c, cacheKey))), FALSE, auFilePath, file, {})
       ELSE IF Len(styleTags) = 0
       THEN Outcome(LRUSet(c, CacheCapacity, cacheKey, <<>>), sr.times,
                    Returned(<<>>), TRUE, auFilePath, file, {})
       ELSE LET run == RunStyles(styleTags, 1, <<>>, auFilePath) IN
            IF run.await
            THEN Outcome(c, sr.times, ReturnedNull, TRUE, auFilePath, file,
                         {[options |-> options, id |-> id, path |-> auFilePath,
                           file |-> file, key |-> cacheKey, styles |-> styleTags,
                           idx |-> run.idx, css |-> run.css]})
            ELSE Outcome(LRUSet(c, CacheCapacity, cacheKey, run.css), sr.times,
                         Returned(run.css), TRUE, auFilePath, file, {})

\* load(id), module branch (filePath ends in .au)
LoadModule(c, times, files, options, id, filePath) ==
  IF ~ExistsSync(files, filePath)
  THEN Outcome(c, times, Thrown, FALSE, filePath, NoFile, {})
  ELSE
    LET code == files[filePath].code
        fileStats == StatSync(files, filePath)
        cacheKey == getCacheKey(filePath, options, code, fileStats)
        sr == shouldRecompile(c, times, files, filePath, cacheKey)
        file == files[filePath]
    IN IF ~sr.recompile
       THEN Outcome(LRUGet(c, cacheKey), sr.times,
                    Returned(Val(CacheValue(c, cacheKey))), FALSE, filePath, file, {})
       ELSE IF MissingSection(code)
       THEN Outcome(c, sr.times, Thrown, TRUE, filePath, file, {})
       ELSE Outcome(LRUSet(c, CacheCapacity, cacheKey, ModuleText(filePath, code)),
                    sr.times, Returned(ModuleText(filePath, code)), TRUE,
                    filePath, file, {})

\* load(id)
load(c, times, files, options, id) ==
  IF ~StartsWith(id, VIRTUAL)
  THEN Outcome(c, times, ReturnedNull, FALSE, <<>>, NoFile, {})
  ELSE LET filePath == ReplaceFirst(id, VIRTUAL, <<>>) IN
       IF EndsWith(filePath, AU_CSS)
       THEN LoadStyle(c, times, files, options, id, filePath)
       ELSE IF EndsWith(filePath, AU)
       THEN LoadModule(c, times, files, options, id, filePath)
       ELSE Outcome(c, times, ReturnedNull, FALSE, <<>>, NoFile, {})

\* mutant: a failed preprocessing leaves the CSS gathered so far in the cache
resume_CachePartial(c, p) ==
  LET tag == p.styles[p.idx]
      processed == processCss(tag.css, tag.lang, p.options)
  IN IF processed = {}
     THEN Outcome(LRUSet(c, CacheCapacity, p.key, p.css), <<>>, Thrown, TRUE,
                  p.path, p.file, {})
     ELSE Outcome(LRUSet(c, CacheCapacity, p.key, p.css \o <<Val(processed)>>), <<>>,
                  Returned(p.css \o <<Val(processed)>>), TRUE, p.path, p.file, {})

\* the rest of a suspended load once `await processCss` settles
resume(c, p) ==
  LET tag == p.styles[p.idx]
      processed == processCss(tag.css, tag.lang, p.options)
  IN IF processed = {}
     THEN Outcome(c, <<>>, Thrown, TRUE, p.path, p.file, {})
     ELSE LET css == IF tag.scoped
                       THEN scopeStyles(Val(processed), generateScopeId(p.path))
                       ELSE Val(processed)
              newline == IF p.css # <<>>
                           THEN <<[t |-> "newline", css |-> "", by |-> "none", scope |-> <<>>]>>
                           ELSE <<>>
              run == RunStyles(p.styles, p.idx + 1, p.css \o newline \o <<css>>, p.path)
          IN IF run.await
             THEN Outcome(c, <<>>, ReturnedNull, TRUE, p.path, p.file,
                          {[p EXCEPT !.idx = run.idx, !.css = run.css]})
             ELSE Outcome(LRUSet(c, CacheCapacity, p.key, run.css), <<>>,
                          Returned(run.css), TRUE, p.path, p.file, {})

\* handleHotUpdate(ctx): the cache after the loop over cache.cache
HotUpdateCache(c, file) == SelectSeq(c, LAMBDA e : ~Includes(e.k, file))

-----------------------------------------------------------------------------
(* The plugin specification: the host calls load, handleHotUpdate and      *)
(* configureServer in any order on plugin instances of any configuration,  *)
(* suspended loads resume in any order, and the component file changes.    *)

MaxTime == 2
MaxChanges == 2
MaxPending == 1

\* the configurations of the plugin instances the host calls
Instances == {NoOptions}

\* the texts the component file takes: no style section, a plain style
\* section, a scoped scss section
FileCodes == {1, 2, 3}

NoCall ==
  [op |-> "none", id |-> <<>>, options |-> NoOptions, file |-> NoFile,
   ret |-> ReturnedUndefined, recompiled |-> FALSE]

Init ==
  /\ fs \in [{P_A} -> [code : FileCodes, mtime : 1..MaxTime]]
  /\ cache = <<>>
  /\ maxSize = CacheCapacity
  /\ fileTimeCache = <<>>
  /\ pending = {}
  /\ last = NoCall
  /\ hist = [mtimes |-> {}, configured |-> FALSE, since |-> {}, changes |-> 0,
             plugins |-> Instances, raced |-> FALSE]
  /\ lruClock = 0 /\ lruUsed = <<>> /\ lruLast = <<>>
  /\ rId = <<>> /\ rImporter = Null /\ rStage = 0 /\ rOut1 = Null /\ rOut2 = Null
  /\ sRule = <<>> /\ sStage = 0 /\ sOut = <<>>
  /\ mScript = <<>> /\ mTemplate = <<>> /\ mStage = 0 /\ mOut = <<>>

Completed(op, id, options, out) ==
  [op |-> op, id |-> id, options |-> options, file |-> out.file,
   ret |-> out.ret, recompiled |-> out.recompiled]

\* the host calls load(id) on the plugin instance configured with options;
\* the call runs to its return, its throw or its first await
Load(options, id) ==
  LET out == load(cache, fileTimeCache, fs, options, id) IN
  /\ out.park # {} => (Cardinality(pending) < MaxPending /\ out.park \cap pending = {})
  /\ cache' = out.cache
  /\ fileTimeCache' = out.times
  /\ pending' = pending \cup out.park
  /\ last' = IF out.park = {} THEN Completed("load", id, options, out) ELSE last
  /\ hist' = [hist EXCEPT
                !.mtimes = IF out.file = NoFile THEN @ ELSE @ \cup {out.file.mtime},
                !.since = IF hist.configured /\ out.file # NoFile THEN @ \cup {id} ELSE @,
                !.raced = @ /\ out.park = {} /\ out.ret.kind = "text"]
  /\ UNCHANGED <<fs, maxSize, lruClock, lruUsed, lruLast, rvars, svars, mvars>>

\* a suspended load continues after `await processCss(...)`; hist.raced
\* records that it wrote the cache after the file it had read was changed
\* and configureServer ran while it was suspended (it is not among the
\* loads since configureServer), and that only loads returned since
Resume(p) ==
  LET out == resume(cache, p) IN
  /\ cache' = out.cache
  /\ pending' = (pending \ {p}) \cup out.park
  /\ last' = IF out.park = {} THEN Completed("load", p.id, p.options, out) ELSE last
  /\ hist' = [hist EXCEPT
                !.raced = @ \/ /\ hist.configured /\ p.id \notin hist.since
                                /\ p.file # fs[p.path] /\ out.ret.kind = "text"]
  /\ UNCHANGED <<fs, fileTimeCache, maxSize, lruClock, lruUsed, lruLast, rvars, svars, mvars>>

\* the host calls handleHotUpdate({file, modules, server})
HandleHotUpdate(file) ==
  /\ IF EndsWith(file, AU)
     THEN /\ cache' = HotUpdateCache(cache, file)
          /\ fileTimeCache' = TimeDelete(fileTimeCache, file)
          /\ last' = [NoCall EXCEPT !.op = "hotUpdate", !.id = file,
                                    !.ret = [kind |-> "modules", text |-> <<>>]]
     ELSE /\ UNCHANGED <<cache, fileTimeCache>>
          /\ last' = [NoCall EXCEPT !.op = "hotUpdate", !.id = file]
  /\ hist' = [hist EXCEPT !.raced = FALSE]
  /\ UNCHANGED <<fs, pending, maxSize, lruClock, lruUsed, lruLast, rvars, svars, mvars>>

\* the host calls configureServer(server)
ConfigureServer ==
  /\ cache' = LRUClear(cache)
  /\ fileTimeCache' = <<>>
  /\ last' = [NoCall EXCEPT !.op = "configureServer",
                            !.ret = [kind |-> "callback", text |-> <<>>]]
  /\ hist' = [hist EXCEPT !.configured = TRUE, !.since = {}, !.raced = FALSE]
  /\ UNCHANGED <<fs, pending, maxSize, lruClock, lruUsed, lruLast, rvars, svars, mvars>>

\* the component file is written or touched: new text, new modification
\* time, or both
FileChange(path, code, mtime) ==
  /\ hist.changes < MaxChanges
  /\ fs[path] # [code |-> code, mtime |-> mtime]
  /\ fs' = [fs EXCEPT ![path] = [code |-> code, mtime |-> mtime]]
  /\ hist' = [hist EXCEPT !.changes = @ + 1, !.raced = FALSE]
  /\ UNCHANGED <<cache, fileTimeCache, pending, last, maxSize,
                 lruClock, lruUsed, lruLast, rvars, svars, mvars>>

Next ==
  \/ \E options \in Instances, id \in LoadIds : Load(options, id)
  \/ \E p \in pending : Resume(p)
  \/ \E file \in HotFiles : HandleHotUpdate(file)
  \/ ConfigureServer
  \/ \E code \in FileCodes, mtime \in 1..MaxTime : FileChange(P_A, code, mtime)

Spec == Init /\ [][Next]_vars

-----------------------------------------------------------------------------
(* The style pipeline specification: one plugin instance of any            *)
(* configuration, or two instances that differ in the function given for   *)
(* scss, a component file of any text that stays unchanged, and load,      *)
(* handleHotUpdate and configureServer calls in any order.                 *)

\* the texts of the component file: plain, preprocessed, failing and
\* several style sections, and documents without a script or a template
StyleCodes == {2, 4, 5, 6, 7, 8, 9}

InitStyles ==
  /\ fs \in [{P_A} -> [code : StyleCodes, mtime : {1}]]
  /\ cache = <<>>
  /\ maxSize = CacheCapacity
  /\ fileTimeCache = <<>>
  /\ pending = {}
  /\ last = NoCall
  /\ \E plugins \in {{options} : options \in Configs}
                       \cup {{WithPreprocessor("scss", "f"),
                               WithPreprocessor("scss", "g")}} :
       hist = [mtimes |-> {}, configured |-> FALSE, since |-> {}, changes |-> 0,
               plugins |-> plugins, raced |-> FALSE]
  /\ lruClock = 0 /\ lruUsed = <<>> /\ lruLast = <<>>
  /\ rId = <<>> /\ rImporter = Null /\ rStage = 0 /\ rOut1 = Null /\ rOut2 = Null
  /\ sRule = <<>> /\ sStage = 0 /\ sOut = <<>>
  /\ mScript = <<>> /\ mTemplate = <<>> /\ mStage = 0 /\ mOut = <<>>

NextStyles ==
  \/ \E options \in hist.plugins, id \in LoadIds : Load(options, id)
  \/ \E p \in pending : Resume(p)
  \/ \E file \in HotFiles : HandleHotUpdate(file)
  \/ ConfigureServer

SpecStyles == InitStyles /\ [][NextStyles]_vars

-----------------------------------------------------------------------------
(* Claims about load, handleHotUpdate and configureServer *)

\* the ids of the module and of the stylesheet of the component file
ComponentIds == {ID_A, ID_A_CSS}

\* a load call that ran from its start to its return or throw in this step
LoadReturns(options, id) == Load(options, id) /\ pending' = pending

\* C1 (as claimed): for a file whose content and modification time do not
\* change, the second of two consecutive load calls on the same virtual id
\* returns the same text as the first and is served from the cache, without
\* running the compilation or style pipeline again.
C1_SecondLoadFromCache ==
  [][ \A options \in Instances, id \in ComponentIds :
        ( /\ LoadReturns(options, id)
          /\ last.op = "load" /\ last.id = id /\ last.options = options
          /\ last.ret.kind = "text"
          /\ last.file = fs[P_A] )
        => (last'.ret = last.ret /\ ~last'.recompiled) ]_vars

\* C2 (as claimed): load on the module id returns the module text and load
\* on the style id returns the stylesheet text, never the other artifact.
C2_ArtifactsApart ==
  (last.op = "load" /\ last.ret.kind = "text") =>
    /\ last.id = ID_A => IsModuleText(last.ret.text)
    /\ last.id = ID_A_CSS => ~IsModuleText(last.ret.text)

\* C3 (as claimed): load on the style id of a component file that has no
\* style sections returns the empty string, whatever was loaded before.
C3_NoStylesEmpty ==
  ( /\ last.op = "load" /\ last.id = ID_A_CSS
    /\ last.file # NoFile
    /\ Docs[last.file.code].styles = <<>> )
  => last.ret = Returned(<<>>)

\* C4 (as claimed): if the file's modification time changes between two
\* load calls on the same virtual id, the later call recompiles and does not
\* return what was cached before the change.
C4_MtimeChangeRecompiles ==
  [][ \A options \in Instances, id \in ComponentIds :
        ( /\ LoadReturns(options, id)
          /\ last.op = "load" /\ last.id = id /\ last.file # NoFile
          /\ fs[P_A].mtime # last.file.mtime )
        => last'.recompiled ]_vars

\* C4 (amended): if the file's modification time changes to a value the file
\* did not have at any earlier load call, a load call recompiles and does
\* not return an entry of the cache.
C4_NewMtimeRecompiles ==
  [][ \A options \in Instances, id \in ComponentIds :
        ( /\ Load(options, id)
          /\ hist.mtimes # {}
          /\ fs[P_A].mtime \notin hist.mtimes )
        => \/ pending' # pending
           \/ /\ last'.op = "load" /\ last'.id = id /\ last'.recompiled
              /\ last'.file = fs[P_A] ]_vars

\* C4 witness: the module id was loaded and cached at one modification time,
\* the time then changed with the text unchanged, and the load of the
\* module id at the new time has recompiled.
C4_Witness ==
  /\ last.op = "load" /\ last.id = ID_A /\ last.recompiled
  /\ last.file = fs[P_A]
  /\ last.ret.kind = "text" /\ IsModuleText(last.ret.text)
  /\ \E i \in 1..Len(cache) :
       /\ KeyMtime(cache[i].k) # last.file.mtime
       /\ KeyCode(cache[i].k) = last.file.code
       /\ IsModuleText(cache[i].v)

\* C5 (as claimed): after handleHotUpdate for a changed file whose path ends
\* in .au, the cache holds no entry compiled from that file and no
\* modification time is recorded for that path.
C5_HotUpdatePurges ==
  (last.op = "hotUpdate" /\ EndsWith(last.id, AU)) =>
    /\ \A i \in 1..Len(cache) : KeyFilePath(cache[i].k) # last.id
    /\ last.id \notin DOMAIN fileTimeCache

\* C8 (as claimed): configureServer empties the result cache and every
\* recorded modification time, so the first load of any virtual id after it
\* recompiles.
C8_FirstLoadAfterConfigure ==
  [][ /\ ConfigureServer => (cache' = <<>> /\ fileTimeCache' = <<>>)
      /\ \A options \in Instances, id \in ComponentIds :
           ( /\ LoadReturns(options, id)
             /\ hist.configured
             /\ id \notin hist.since )
           => last'.recompiled ]_vars

-----------------------------------------------------------------------------
(* Claims about failing loads and the style pipeline *)

\* C13: a load call that aborts with an error (component file missing,
\* script or template section missing, style preprocessing failure) leaves
\* the result cache as it was before the call's last step.
C13_FailedLoadWritesNothing ==
  [][ /\ \A options \in Configs, id \in LoadIds :
           (LoadReturns(options, id) /\ last'.ret.kind = "error") => cache' = cache
      /\ \A p \in pending :
           (Resume(p) /\ p \notin pending' /\ last'.ret.kind = "error")
             => cache' = cache ]_vars

\* C13 witness: with an entry in the cache, a style load of the component
\* file has failed in preprocessing.
C13_Witness ==
  /\ last.op = "load" /\ last.id = ID_A_CSS
  /\ last.file # NoFile
  /\ last.ret.kind = "error"
  /\ Len(cache) > 0

\* C14 (as claimed): load on the module id fails on every call while the
\* document has no script section or no template section.
C14_MissingSectionFails ==
  ( /\ last.op = "load" /\ last.id = ID_A
    /\ last.file # NoFile
    /\ MissingSection(last.file.code) )
  => last.ret.kind = "error"

\* some non-empty style section of the document is rejected by its preprocessor
PreprocessingFails(code, options) ==
  \E i \in 1..Len(Docs[code].styles) :
    LET tag == Docs[code].styles[i] IN
    /\ tag.css # "" /\ tag.lang # "css"
    /\ processCss(tag.css, tag.lang, options) = {}

\* C15 (as claimed): while preprocessing of a style section of the file
\* fails, every load call on the style id fails; no text is returned in
\* place of the failure.
C15_PreprocessFailureFails ==
  ( /\ last.op = "load" /\ last.id = ID_A_CSS
    /\ last.file # NoFile
    /\ PreprocessingFails(last.file.code, last.options) )
  => last.ret.kind = "error"

\* the style sections of a document whose trimmed text is not empty
NonEmptySections(code) == SelectSeq(Docs[code].styles, LAMBDA tag : tag.css # "")

\* C16 (as claimed): when load compiles the stylesheet, every style section
\* whose language tag has a user-supplied function carries that function's
\* result, for every tag, css included.
C16_UserFunctionUsed ==
  ( /\ last.op = "load" /\ last.id = ID_A_CSS
    /\ last.recompiled /\ last.ret.kind = "text" )
  => LET secs == NonEmptySections(last.file.code)
         emitted == SelectSeq(last.ret.text, LAMBDA tok : tok.t = "css")
     IN /\ Len(emitted) = Len(secs)
        /\ \A i \in 1..Len(secs) :
             last.options.pre[secs[i].lang] # "none"
               => emitted[i].by = last.options.pre[secs[i].lang]

-----------------------------------------------------------------------------
(* scopeStyles on the text of a stylesheet *)

SetMin(S) == CHOOSE x \in S : \A y \in S : x <= y
SetMax(S) == CHOOSE x \in S : \A y \in S : y <= x

\* the regular expression class \s, on the white space the texts contain
IsSpace(ch) == ch \in {" ", "\n", "\t"}

\* String.prototype.trim
Trim(s) ==
  LET keep == {i \in 1..Len(s) : ~IsSpace(s[i])}
  IN IF keep = {} THEN <<>> ELSE SubSeq(s, SetMin(keep), SetMax(keep))

\* String.prototype.split with a one-character separator
RECURSIVE Split(_, _)
Split(s, ch) ==
  LET i == IndexOf(s, <<ch>>)
  IN IF i = 0 THEN <<s>>
     ELSE <<SubSeq(s, 1, i - 1)>> \o Split(SubSeq(s, i + 1, Len(s)), ch)

\* Array.prototype.join
RECURSIVE Join(_, _)
Join(parts, sep) ==
  IF parts = <<>> THEN <<>>
  ELSE IF Len(parts) = 1 THEN parts[1]
  ELSE parts[1] \o sep \o Join(Tail(parts), sep)

COMMA_SPACE == <<",", " ">>
SPACE_BRACE == <<" ", "{">>
GLOBAL_OPEN == <<":", "g", "l", "o", "b", "a", "l", "(">>
HOST == <<":", "h", "o", "s", "t">>
FROM == <<"f", "r", "o", "m">>
TO == <<"t", "o">>

\* ['html', 'body', '*', '::before', '::after']
GlobalSelectors ==
  { <<"h", "t", "m", "l">>, <<"b", "o", "d", "y">>, <<"*">>,
    <<":", ":", "b", "e", "f", "o", "r", "e">>,
    <<":", ":", "a", "f", "t", "e", "r">> }

\* `[${scopeId}]`
ScopeAttribute(scopeId) == <<"[">> \o scopeId \o <<"]">>

\* /^\d+%$/.test(s)
IsPercentage(s) ==
  /\ Len(s) >= 2
  /\ s[Len(s)] = "%"
  /\ \A i \in 1..(Len(s) - 1) : \E d \in 1..Len(Digits) : s[i] = Digits[d]

\* s.replace(/:global\(([^)]+)\)/g, '$1'): every ':global(' that is followed
\* by at least one character and then a ')' is replaced, with the first ')'
\* after it, by the characters between them
RECURSIVE ReplaceGlobal(_)
ReplaceGlobal(s) ==
  LET FirstClose(i) ==
        LET closes == {r \in (i + Len(GLOBAL_OPEN))..Len(s) : s[r] = ")"}
        IN IF closes = {} THEN 0 ELSE SetMin(closes)
      starts == {i \in 1..(Len(s) - Len(GLOBAL_OPEN) + 1) :
                   /\ SubSeq(s, i, i + Len(GLOBAL_OPEN) - 1) = GLOBAL_OPEN
                   /\ FirstClose(i) > i + Len(GLOBAL_OPEN)}
  IN IF starts = {} THEN s
     ELSE LET i == SetMin(starts)
              r == FirstClose(i)
          IN SubSeq(s, 1, i - 1) \o SubSeq(s, i + Len(GLOBAL_OPEN), r - 1)
               \o ReplaceGlobal(SubSeq(s, r + 1, Len(s)))

\* the callback of selectors.map: one trimmed selector of a rule
scopeSelector(s, scopeId) ==
  IF s = <<>> THEN s
  ELSE IF Includes(s, GLOBAL_OPEN) THEN ReplaceGlobal(s)
  ELSE IF StartsWith(s, HOST) THEN ReplaceFirst(s, HOST, ScopeAttribute(scopeId))
  ELSE IF Trim(s) \in GlobalSelectors THEN s
  ELSE IF Includes(s, <<"%">>) \/ IsPercentage(Trim(s)) \/ s = FROM \/ s = TO THEN s
  ELSE s \o ScopeAttribute(scopeId)

\* the callback of css.replace: match is the text matched, selector group 1
scopeRule(match, selector, scopeId) ==
  IF Includes(selector, <<"@">>) THEN match
  ELSE LET selectors == Split(selector, ",")
           scoped == [i \in 1..Len(selectors) |->
                        scopeSelector(Trim(selectors[i]), scopeId)]
       IN Join(scoped, COMMA_SPACE) \o SPACE_BRACE

\* the first position at or after p of a character that group 1, [^{}@]*?,
\* cannot contain; 0 when there is none
NextSpecial(css, p) ==
  LET specials == {k \in p..Len(css) : css[k] \in {"{", "}", "@"}}
  IN IF specials = {} THEN 0 ELSE SetMin(specials)

\* /([^{}@]*?)\s*{/ matches at position p
MatchesAt(css, p) ==
  NextSpecial(css, p) # 0 /\ css[NextSpecial(css, p)] = "{"

\* css.replace(/([^{}@]*?)\s*{/g, callback) from position from on: the
\* leftmost match is replaced and the search goes on after its '{'; group 1
\* is lazy, so it ends where the white space before the '{' begins
RECURSIVE ReplaceRules(_, _, _)
ReplaceRules(css, from, scopeId) ==
  LET starts == {p \in from..Len(css) : MatchesAt(css, p)}
  IN IF starts = {} THEN SubSeq(css, from, Len(css))
     ELSE LET p == SetMin(starts)
              q == NextSpecial(css, p)
              before == SubSeq(css, p, q - 1)
              ends == {k \in 0..Len(before) :
                         \A j \in (k + 1)..Len(before) : IsSpace(before[j])}
              selector == SubSeq(before, 1, SetMin(ends))
          IN SubSeq(css, from, p - 1)
               \o scopeRule(SubSeq(css, p, q), selector, scopeId)
               \o ReplaceRules(css, q + 1, scopeId)

\* scopeStyles(css, scopeId) on the text of the stylesheet
scopeStylesText(css, scopeId) == ReplaceRules(css, 1, scopeId)

-----------------------------------------------------------------------------
(* The scopeStyles specification: one call on a stylesheet of one rule,    *)
(* alone or inside an at-rule                                              *)

MaxSelectors == 2

SEL_A == <<".", "a">>
SEL_H1 == <<"h", "1">>
SEL_A_B == <<".", "a", " ", "b">>
SEL_HOST_ON == <<":", "h", "o", "s", "t", "(", ".", "o", "n", ")">>
SEL_GLOBAL_G == <<":", "g", "l", "o", "b", "a", "l", "(", ".", "g", ")">>
SEL_A_GLOBAL_G == <<".", "a", " ", ":", "g", "l", "o", "b", "a", "l", "(", ".", "g", ")">>
SEL_GLOBAL_NOT == <<":", "g", "l", "o", "b", "a", "l", "(", ".", "a", ":", "n", "o", "t", "(", ".", "b", ")", " ", ".", "c", ")">>
SEL_50 == <<"5", "0", "%">>
SEL_W50 == <<".", "w", "5", "0", "\\", "%">>
AT_MEDIA == <<"@", "m", "e", "d", "i", "a", " ", "x">>
AT_KEYFRAMES == <<"@", "k", "e", "y", "f", "r", "a", "m", "e", "s", " ", "k">>
DECLARATIONS == <<"c", ":", "d">>

\* the selectors of the repository's tests and documentation, a :global
\* around a selector with a parenthesis of its own, and a class whose name
\* holds an escaped '%'
SampleSelectors ==
  GlobalSelectors \cup
  { SEL_A, SEL_H1, SEL_A_B, HOST, SEL_HOST_ON, SEL_GLOBAL_G, SEL_A_GLOBAL_G,
    SEL_GLOBAL_NOT, SEL_50, SEL_W50, FROM, TO }

\* the prelude of the enclosing at-rule, <<>> when there is none
AtRules == {<<>>, AT_MEDIA, AT_KEYFRAMES}

\* the stylesheet: the selectors joined by sep, gap before each '{'
RuleText(r) ==
  LET rule == Join(r.sels, r.sep) \o r.gap \o <<"{">> \o DECLARATIONS \o <<"}">>
  IN IF r.at = <<>> THEN rule
     ELSE r.at \o r.gap \o <<"{">> \o rule \o <<"}">>

\* the scope id of the component file
ScopeId == generateScopeId(P_A)

InitScope ==
  /\ sRule \in [at : AtRules,
                sels : UNION {[1..n -> SampleSelectors] : n \in 1..MaxSelectors},
                sep : {<<",">>, COMMA_SPACE},
                gap : {<<>>, <<" ">>}]
  /\ sStage = 0
  /\ sOut = <<>>
  /\ rId = <<>> /\ rImporter = Null /\ rStage = 0 /\ rOut1 = Null /\ rOut2 = Null
  /\ cache = <<>> /\ maxSize = 0 /\ lruClock = 0 /\ lruUsed = <<>>
  /\ lruLast = <<>>
  /\ fs = <<>> /\ fileTimeCache = <<>> /\ pending = {} /\ last = <<>> /\ hist = <<>>
  /\ mScript = <<>> /\ mTemplate = <<>> /\ mStage = 0 /\ mOut = <<>>

\* load calls scopeStyles(css, scopeId) on a scoped style section
ScopeStyles ==
  /\ sStage = 0
  /\ sOut' = scopeStylesText(RuleText(sRule), ScopeId)
  /\ sStage' = 1
  /\ UNCHANGED <<sRule, rvars, lvars, pvars, mvars>>

NextScope == ScopeStyles

SpecScope == InitScope /\ [][NextScope]_vars

-----------------------------------------------------------------------------
(* Claims about scopeStyles *)

\* the stylesheet the rule is emitted as when its selectors are rewritten by
\* Rewrite, joined with ', ' and followed by ' {'
Emitted(r, Rewrite(_)) ==
  Join([i \in 1..Len(r.sels) |-> Rewrite(r.sels[i])], COMMA_SPACE)
    \o SPACE_BRACE \o DECLARATIONS \o <<"}">>

\* C17 (as claimed): the prelude of an at-rule is emitted exactly as
\* written, up to its '{', and gets no scope attribute.
C17_AtRuleUnmodified ==
  (sStage = 1 /\ sRule.at # <<>>) =>
    StartsWith(sOut, sRule.at \o sRule.gap \o <<"{">>)

\* :host alone or :host(X)
IsHostSelector(s) ==
  s = HOST \/ (StartsWith(s, HOST \o <<"(">>) /\ s[Len(s)] = ")")

\* [scopeId] for :host, [scopeId] followed by X for :host(X)
HostRewritten(s) ==
  IF s = HOST THEN ScopeAttribute(ScopeId)
  ELSE ScopeAttribute(ScopeId) \o SubSeq(s, Len(HOST) + 2, Len(s) - 1)

\* C18 (as claimed): in a rule outside any at-rule, the selector :host is
\* emitted as [scopeId] and :host(X) as [scopeId] directly followed by X.
C18_HostSelector ==
  (sStage = 1 /\ sRule.at = <<>>) =>
    sOut = Emitted(sRule, LAMBDA s : IF IsHostSelector(s) THEN HostRewritten(s)
                                      ELSE scopeSelector(s, ScopeId))

\* the position of the ')' that closes the parenthesis open at position i
RECURSIVE ClosingAt(_, _, _)
ClosingAt(s, i, depth) ==
  IF i > Len(s) THEN 0
  ELSE IF s[i] = "(" THEN ClosingAt(s, i + 1, depth + 1)
  ELSE IF s[i] = ")"
    THEN (IF depth = 0 THEN i ELSE ClosingAt(s, i + 1, depth - 1))
  ELSE ClosingAt(s, i + 1, depth)

\* s with every :global( and its closing parenthesis removed
RECURSIVE WithoutGlobal(_)
WithoutGlobal(s) ==
  LET i == IndexOf(s, GLOBAL_OPEN)
      c == ClosingAt(s, i + Len(GLOBAL_OPEN), 0)
  IN IF i = 0 \/ c = 0 THEN s
     ELSE SubSeq(s, 1, i - 1)
            \o WithoutGlobal(SubSeq(s, i + Len(GLOBAL_OPEN), c - 1))
            \o WithoutGlobal(SubSeq(s, c + 1, Len(s)))

\* C19 (as claimed): in a rule outside any at-rule, a selector that uses
\* :global(S) is emitted as S with the wrapper removed, and no scope
\* attribute is added to it.
C19_GlobalSelector ==
  (sStage = 1 /\ sRule.at = <<>>) =>
    sOut = Emitted(sRule, LAMBDA s : IF Includes(s, GLOBAL_OPEN) THEN WithoutGlobal(s)
                                      ELSE scopeSelector(s, ScopeId))

\* a selector that is neither a :global nor a :host selector
IsPlainSelector(s) == ~Includes(s, GLOBAL_OPEN) /\ ~StartsWith(s, HOST)

\* html, body, *, ::before, ::after, N%, from and to
IsKeptSelector(s) ==
  \/ s \in GlobalSelectors
  \/ s \in {FROM, TO}
  \/ /\ Len(s) >= 2 /\ s[Len(s)] = "%"
     /\ \A i \in 1..(Len(s) - 1) : s[i] \in {Digits[d] : d \in 1..Len(Digits)}

\* C20 (as claimed): in a rule outside any at-rule, every comma-separated
\* selector is rewritten on its own and the results are joined with ', ':
\* html, body, *, ::before, ::after, N%, from and to are emitted unchanged,
\* every other plain selector is emitted with [scopeId] appended directly at
\* its end.
C20_SelectorList ==
  (sStage = 1 /\ sRule.at = <<>>) =>
    sOut = Emitted(sRule, LAMBDA s :
                     IF ~IsPlainSelector(s) THEN scopeSelector(s, ScopeId)
                     ELSE IF IsKeptSelector(s) THEN s
                     ELSE s \o <<"[">> \o ScopeId \o <<"]">>)

-----------------------------------------------------------------------------
(* Claims about the texts load returns *)

\* the CSS of one style section after its preprocessor: the user-supplied
\* function of its language tag, else the engine of the tag, else the text
Preprocessed(tag, options) ==
  [t |-> "css", css |-> tag.css,
   by |-> IF options.pre[tag.lang] # "none" /\ tag.lang # "css"
            THEN options.pre[tag.lang]
          ELSE IF tag.lang \in {"scss", "sass"} THEN "sass"
          ELSE IF tag.lang = "stylus" THEN "stylus"
          ELSE "none",
   scope |-> IF tag.scoped THEN generateScopeId(P_A) ELSE <<>>]

\* the sections' CSS in document order with one newline between two of them
RECURSIVE JoinedByNewlines(_, _)
JoinedByNewlines(secs, options) ==
  IF secs = <<>> THEN <<>>
  ELSE IF Len(secs) = 1 THEN <<Preprocessed(secs[1], options)>>
  ELSE <<Preprocessed(secs[1], options),
         [t |-> "newline", css |-> "", by |-> "none", scope |-> <<>>]>>
         \o JoinedByNewlines(Tail(secs), options)

\* C21 (as claimed): the text load returns for the style id is the CSS of
\* the document's non-empty style sections in document order, joined by
\* single newlines, the scoped sections rewritten by the scoper and the
\* others not.
C21_StylesheetOfSections ==
  ( /\ last.op = "load" /\ last.id = ID_A_CSS
    /\ last.ret.kind = "text" )
  => last.ret.text = JoinedByNewlines(NonEmptySections(last.file.code), last.options)

\* C26 (as claimed): shouldRecompile returns true exactly when the cache has
\* no entry for the key or the file's modification time is later than the
\* time recorded for the path (a path without a recorded time counting as
\* later), and whenever it returns true the file's current modification time
\* is recorded for the path afterwards.
C26_ShouldRecompile ==
  [][ \A options \in Configs, id \in ComponentIds :
        Load(options, id) =>
          LET key == getCacheKey(P_A, options, fs[P_A].code, StatSync(fs, P_A))
              recorded == TimeGet(fileTimeCache, P_A)
              sr == shouldRecompile(cache, fileTimeCache, fs, P_A, key)
          IN /\ sr.recompile <=>
                  \/ ~CacheHas(cache, key)
                  \/ recorded = {}
                  \/ fs[P_A].mtime > Val(recorded)
             /\ sr.recompile => TimeGet(fileTimeCache', P_A) = {fs[P_A].mtime} ]_vars

\* the names of the user-supplied functions of a configuration
UserFunctions(options) == {options.pre[L] : L \in Langs} \ {"none"}

\* C27 (as claimed): a result compiled under one plugin configuration is
\* never returned to a plugin instance of another configuration, also when
\* the two differ only in a user-supplied preprocessor function: every
\* section of a returned stylesheet that a user-supplied function produced
\* was produced by a function of the instance that returns it.
C27_ConfigurationsApart ==
  (last.op = "load" /\ last.ret.kind = "text") =>
    \A i \in 1..Len(last.ret.text) :
      (last.ret.text[i].t = "css" /\ last.ret.text[i].by \in {"f", "g"})
        => last.ret.text[i].by \in UserFunctions(last.options)

\* the texts load can compile from the document code: the module and the
\* stylesheet
CompiledTexts(code, options) ==
  { <<[t |-> "module", path |-> P_A, code |-> code,
       scope |-> IF \E i \in 1..Len(Docs[code].styles) : Docs[code].styles[i].scoped
                 THEN generateScopeId(P_A) ELSE <<>>]>>,
    JoinedByNewlines(NonEmptySections(code), options) }

\* C28: when a load on a style id is suspended in style preprocessing, the
\* file is changed and handleHotUpdate or configureServer runs before it
\* resumes, the cache write of the resumed load never makes a later load of
\* the changed file return text compiled from the old content: every text a
\* load returns is compiled from the content that load read.
C28_ResumedWriteNeverStale ==
  (last.op = "load" /\ last.ret.kind = "text")
    => last.ret.text \in CompiledTexts(last.file.code, last.options)

\* C28 witness: a resumed load wrote the cache after the file was changed
\* and configureServer ran, its entry is still in the cache, and a later
\* load of the stylesheet read the changed file and returned text.
C28_Witness ==
  /\ hist.raced /\ hist.changes = 1
  /\ last.op = "load" /\ last.id = ID_A_CSS /\ last.ret.kind = "text"
  /\ last.file = fs[P_A]
  /\ \E i \in 1..Len(cache) :
       KeyCode(cache[i].k) # fs[P_A].code \/ KeyMtime(cache[i].k) # fs[P_A].mtime

\* the scope attributes in the texts the cache holds and in the text the
\* last load returned
ScopeTokens ==
  LET texts == {cache[i].v : i \in 1..Len(cache)}
                 \cup (IF last.op = "load" /\ last.ret.kind = "text"
                       THEN {last.ret.text} ELSE {})
  IN UNION {{text[i].scope : i \in 1..Len(text)} : text \in texts} \ {<<>>}

\* C30: the scope identifier depends on the component file's path only: the
\* attribute injected in the module and the attribute in the selectors of
\* the stylesheet are the same token, whatever content and modification
\* time the file had when they were compiled.
C30_ScopeIdOfPathOnly == Cardinality(ScopeTokens) <= 1

\* C30 witness: after the file changed, the cache holds a module with the
\* scope attribute and a stylesheet with scoped selectors that were compiled
\* at different modification times.
C30_Witness ==
  /\ hist.changes >= 1
  /\ \E i, j \in 1..Len(cache) :
       /\ IsModuleText(cache[i].v) /\ cache[i].v[1].scope # <<>>
       /\ cache[j].v # <<>> /\ cache[j].v[1].t = "css" /\ cache[j].v[1].scope # <<>>
       /\ KeyMtime(cache[i].k) # KeyMtime(cache[j].k)

-----------------------------------------------------------------------------
(* The module branch of load: extractImportsAndContent,                    *)
(* extractElementName, extractClassName, kebabCase, escapeTemplate and the *)
(* module text put together from them.  The backtick character, which a    *)
(* TLA+ string cannot hold, is written "backtick".                         *)

\* [...new Set(items)]: the first occurrence of every item, in order
RECURSIVE Dedupe(_)
Dedupe(items) ==
  IF items = <<>> THEN <<>>
  ELSE LET front == Dedupe(SubSeq(items, 1, Len(items) - 1))
           item == items[Len(items)]
       IN IF \E i \in 1..Len(front) : front[i] = item THEN front
          ELSE Append(front, item)

\* extractImportsAndContent(script); loop is the for loop over the lines
\* that are left
extractImportsAndContent(script) ==
  LET RECURSIVE loop(_, _, _, _, _)
      loop(lines, imports, contentLines, inMultiLineImport, currentImport) ==
        IF lines = <<>> THEN [imports |-> imports, contentLines |-> contentLines]
        ELSE
          LET line == Head(lines)
              trimmedLine == Trim(line)
              closed == Includes(trimmedLine, <<";">>) \/ Includes(trimmedLine, FROM)
          IN IF inMultiLineImport
             THEN IF closed
                  THEN loop(Tail(lines),
                            Append(imports, Trim(currentImport \o <<"\n">> \o line)),
                            contentLines, FALSE, <<>>)
                  ELSE loop(Tail(lines), imports, contentLines, TRUE,
                            currentImport \o <<"\n">> \o line)
             ELSE IF StartsWith(trimmedLine, <<"i", "m", "p", "o", "r", "t", " ">>)
             THEN IF ~closed
                  THEN loop(Tail(lines), imports, contentLines, TRUE, line)
                  ELSE loop(Tail(lines), Append(imports, Trim(line)),
                            contentLines, FALSE, currentImport)
             ELSE loop(Tail(lines), imports, Append(contentLines, line),
                       FALSE, currentImport)
      out == loop(Split(script, "\n"), <<>>, <<>>, FALSE, <<>>)
  IN [imports |-> Dedupe(out.imports),
      classContent |-> Trim(Join(out.contentLines, <<"\n">>))]

\* the character classes [a-z], [A-Z] and [0-9]
CharClass ==
  [lower |-> <<"a", "b", "c", "d", "e", "f", "g", "h", "i", "j", "k", "l", "m",
               "n", "o", "p", "q", "r", "s", "t", "u", "v", "w", "x", "y", "z">>,
   upper |-> <<"A", "B", "C", "D", "E", "F", "G", "H", "I", "J", "K", "L", "M",
               "N", "O", "P", "Q", "R", "S", "T", "U", "V", "W", "X", "Y", "Z">>,
   digit |-> Digits]

(* A regular expression made of the texts lits, each followed by \s* (gap  *)
(* 0) or \s+ (gap 1), matched at position p of s: the position after the   *)
(* match, 0 when there is none.                                            *)
RECURSIVE AfterWords(_, _, _, _)
AfterWords(s, p, lits, gap) ==
  IF lits = <<>> THEN p
  ELSE LET lit == Head(lits)
           q == p + Len(lit)
           stops == {i \in q..Len(s) : ~IsSpace(s[i])}
           next == IF stops = {} THEN Len(s) + 1 ELSE SetMin(stops)
       IN IF p >= 1 /\ q - 1 <= Len(s) /\ SubSeq(s, p, q - 1) = lit /\ next >= q + gap
          THEN AfterWords(s, next, Tail(lits), gap)
          ELSE 0

\* extractElementName(script): {} for null
extractElementName(script) ==
  LET quotes == {"'", "\"", "backtick"}
      customElement ==
        <<"@", "c", "u", "s", "t", "o", "m", "E", "l", "e", "m", "e", "n",
          "t">>
      \* a quote of open at p, one or more characters not in closed, and a
      \* character of closed: the text between, {} without a match
      QuotedAt(p, open, closed) ==
        IF p >= 1 /\ p <= Len(script) /\ script[p] \in open
        THEN LET ends == {i \in (p + 1)..Len(script) : script[i] \in closed}
             IN IF ends = {} \/ SetMin(ends) = p + 1 THEN {}
                ELSE {SubSeq(script, p + 1, SetMin(ends) - 1)}
        ELSE {}
      \* /@customElement\s*\(\s*\{\s*name:\s*['"`]([^'"`]+)['"`]/ at p
      ObjectNameAt(p) ==
        QuotedAt(AfterWords(script, p,
                   <<customElement, <<"(">>, <<"{">>, <<"n", "a", "m", "e", ":">> >>, 0),
                 quotes, quotes)
      \* /@customElement\s*\(\s*['"`]([^'"`]+)['"`]/ at p
      StringNameAt(p) ==
        QuotedAt(AfterWords(script, p, <<customElement, <<"(">> >>, 0), quotes, quotes)
      \* /@customElement\s*\(\s*\{\s*name:\s*`([^`]+)`/ at p
      TemplateNameAt(p) ==
        QuotedAt(AfterWords(script, p,
                   <<customElement, <<"(">>, <<"{">>, <<"n", "a", "m", "e", ":">> >>, 0),
                 {"backtick"}, {"backtick"})
      \* script.match(pattern): the group of the leftmost match
      Match(GroupAt(_)) ==
        LET hits == {p \in 1..Len(script) : GroupAt(p) # {}}
        IN IF hits = {} THEN {} ELSE GroupAt(SetMin(hits))
  IN IF Match(ObjectNameAt) # {} THEN {Trim(Val(Match(ObjectNameAt)))}
     ELSE IF Match(StringNameAt) # {} THEN {Trim(Val(Match(StringNameAt)))}
     ELSE IF Match(TemplateNameAt) # {} THEN {Trim(Val(Match(TemplateNameAt)))}
     ELSE Null

(* The texts words, each followed by \s+, and (\w+), matched at position  *)
(* p of s: the group and the position of its last character, {} without a *)
(* match.                                                                  *)
ClassNameAt(s, p, words) ==
  LET IsWord(ch) ==
        \/ \E k \in {"lower", "upper", "digit"} :
             \E i \in 1..Len(CharClass[k]) : CharClass[k][i] = ch
        \/ ch = "_"
      q == AfterWords(s, p, words, 1)
      stops == {i \in q..Len(s) : ~IsWord(s[i])}
      end == IF stops = {} THEN Len(s) ELSE SetMin(stops) - 1
  IN IF q = 0 \/ q > Len(s) THEN {}
     ELSE IF ~IsWord(s[q]) THEN {}
     ELSE {[word |-> SubSeq(s, q, end), end |-> end]}

\* extractClassName(script)
extractClassName(script) ==
  LET export == <<"e", "x", "p", "o", "r", "t">>
      default == <<"d", "e", "f", "a", "u", "l", "t">>
      class == <<"c", "l", "a", "s", "s">>
      \* /export\s+default\s+class\s+(\w+)/ at p
      DefaultClassAt(p) == ClassNameAt(script, p, <<export, default, class>>)
      \* /class\s+(\w+)[^{]*{/ at p
      ClassWithBodyAt(p) ==
        LET name == ClassNameAt(script, p, <<class>>)
        IN IF name # {} /\ \E i \in (Val(name).end + 1)..Len(script) : script[i] = "{"
           THEN name ELSE {}
      \* /export\s+class\s+(\w+)/ at p
      ExportClassAt(p) == ClassNameAt(script, p, <<export, class>>)
      \* script.match(pattern): the group of the leftmost match
      Match(GroupAt(_)) ==
        LET hits == {p \in 1..Len(script) : GroupAt(p) # {}}
        IN IF hits = {} THEN {} ELSE GroupAt(SetMin(hits))
  IN IF Match(DefaultClassAt) # {} THEN Val(Match(DefaultClassAt)).word
     ELSE IF Match(ClassWithBodyAt) # {} THEN Val(Match(ClassWithBodyAt)).word
     ELSE IF Match(ExportClassAt) # {} THEN Val(Match(ExportClassAt)).word
     ELSE
          <<"A", "n", "o", "n", "y", "m", "o", "u", "s", "C", "o", "m", "p",
            "o", "n", "e", "n", "t">>

\* kebabCase(str)
kebabCase(str) ==
  LET IsLower(ch) == \E i \in 1..Len(CharClass.lower) : CharClass.lower[i] = ch
      IsUpper(ch) == \E i \in 1..Len(CharClass.upper) : CharClass.upper[i] = ch
      IsDigit(ch) == \E i \in 1..Len(CharClass.digit) : CharClass.digit[i] = ch
      \* .replace(/([a-z0-9])([A-Z])/g, '$1-$2')
      RECURSIVE LowerUpper(_)
      LowerUpper(s) ==
        IF Len(s) < 2 THEN s
        ELSE IF (IsLower(s[1]) \/ IsDigit(s[1])) /\ IsUpper(s[2])
        THEN <<s[1], "-", s[2]>> \o LowerUpper(SubSeq(s, 3, Len(s)))
        ELSE <<s[1]>> \o LowerUpper(Tail(s))
      \* .replace(/([A-Z])([A-Z][a-z])/g, '$1-$2')
      RECURSIVE UpperWord(_)
      UpperWord(s) ==
        IF Len(s) < 3 THEN s
        ELSE IF IsUpper(s[1]) /\ IsUpper(s[2]) /\ IsLower(s[3])
        THEN <<s[1], "-", s[2], s[3]>> \o UpperWord(SubSeq(s, 4, Len(s)))
        ELSE <<s[1]>> \o UpperWord(Tail(s))
      \* .toLowerCase()
      ToLowerCase(s) ==
        [i \in 1..Len(s) |->
           IF IsUpper(s[i]) THEN CharClass.lower[IndexIn(CharClass.upper, s[i])]
           ELSE s[i]]
  IN ToLowerCase(UpperWord(LowerUpper(str)))

\* String.prototype.replace with a global pattern that matches the text p
RECURSIVE ReplaceAll(_, _, _)
ReplaceAll(s, p, r) ==
  LET i == IndexOf(s, p)
  IN IF i = 0 THEN s
     ELSE SubSeq(s, 1, i - 1) \o r \o ReplaceAll(SubSeq(s, i + Len(p), Len(s)), p, r)

\* mutant: backslashes are escaped last, the added ones included
escapeTemplate_BackslashLast(template) ==
  ReplaceAll(ReplaceAll(ReplaceAll(template,
      <<"backtick">>, <<"\\", "backtick">>),
      <<"$", "{">>, <<"\\", "$", "{">>),
      <<"\\">>, <<"\\", "\\">>)

\* escapeTemplate(template)
escapeTemplate(template) ==
  ReplaceAll(ReplaceAll(ReplaceAll(template,
      <<"\\">>, <<"\\", "\\">>),
      <<"backtick">>, <<"\\", "backtick">>),
      <<"$", "{">>, <<"\\", "$", "{">>)

(* The value of the literal in `const template = ...;` with the text body  *)
(* between its backticks: {} when body does not make a template literal   *)
(* without substitutions (a backtick ends it early, ${ opens a             *)
(* substitution, a backslash ends it), else the string it evaluates to.  A *)
(* backslash makes the next character stand for itself, a backslash before *)
(* a line end continues the line, and a carriage return, alone or before a *)
(* line feed, evaluates to a line feed.                                    *)
RECURSIVE TemplateValue(_)
TemplateValue(body) ==
  IF body = <<>> THEN {<<>>}
  ELSE LET ch == body[1]
           rest == Tail(body)
           afterEnd == IF ch = "\r" /\ rest # <<>> /\ rest[1] = "\n"
                         THEN Tail(rest) ELSE rest
       IN IF ch = "backtick" THEN {}
          ELSE IF ch = "$" /\ rest # <<>> /\ rest[1] = "{" THEN {}
          ELSE IF ch = "\\"
          THEN IF rest = <<>> THEN {}
               ELSE IF rest[1] = "\n" THEN TemplateValue(Tail(rest))
               ELSE IF rest[1] = "\r"
               THEN TemplateValue(IF Len(rest) >= 2 /\ rest[2] = "\n"
                                    THEN Tail(Tail(rest)) ELSE Tail(rest))
               ELSE {<<rest[1]>> \o v : v \in TemplateValue(Tail(rest))}
          ELSE IF ch = "\r" THEN {<<"\n">> \o v : v \in TemplateValue(afterEnd)}
          ELSE {<<ch>> \o v : v \in TemplateValue(rest)}

(* The module branch of load from extractImportsAndContent to finalScript, *)
(* for a component without style sections, and the value its template     *)
(* constant has when the module is evaluated.  componentName holds no $    *)
(* here, so the replacement text of classContent.replace is taken as it    *)
(* stands, with $1 the class name.                                         *)
Synthesis(scriptCode, processedTemplate) ==
  LET extracted == extractImportsAndContent(scriptCode)
      imports == extracted.imports
      classContent == extracted.classContent
      elementName == extractElementName(classContent)
      componentName == IF elementName # Null THEN Val(elementName)
                       ELSE kebabCase(extractClassName(classContent))
      allImports ==
        Dedupe(Append(imports,
          <<"i", "m", "p", "o", "r", "t", " ", "{", " ", "c", "u", "s", "t",
            "o", "m", "E", "l", "e", "m", "e", "n", "t", " ", "}", " ", "f",
            "r", "o", "m", " ", "'", "a", "u", "r", "e", "l", "i", "a", "'",
            ";">>))
      \* /export\s+default\s+class\s+(\w+)/ at p
      DefaultClassAt(p) ==
        ClassNameAt(classContent, p,
                    << <<"e", "x", "p", "o", "r", "t">>,
                       <<"d", "e", "f", "a", "u", "l", "t">>,
                       <<"c", "l", "a", "s", "s">> >>)
      hits == {p \in 1..Len(classContent) : DefaultClassAt(p) # {}}
      found == Val(DefaultClassAt(SetMin(hits)))
      decoratedClassContent ==
        IF hits = {} THEN classContent
        ELSE SubSeq(classContent, 1, SetMin(hits) - 1)
               \o
               <<"@", "c", "u", "s", "t", "o", "m", "E", "l", "e", "m", "e",
                 "n", "t", "(", "{", " ", "n", "a", "m", "e", ":", " ", "'">>
               \o componentName \o
               <<"'", ",", " ", "t", "e", "m", "p", "l", "a", "t", "e", " ",
                 "}", ")", "\n", "e", "x", "p", "o", "r", "t", " ", "d", "e",
                 "f", "a", "u", "l", "t", " ", "c", "l", "a", "s", "s", " ">>
               \o found.word \o SubSeq(classContent, found.end + 1, Len(classContent))
      templateLiteral == escapeTemplate(processedTemplate)
      parts == << Join(allImports, <<"\n">>), <<>>, <<>>,
                  <<"c", "o", "n", "s", "t", " ", "t", "e", "m", "p", "l",
                    "a", "t", "e", " ", "=", " ", "backtick">>
                    \o templateLiteral \o <<"backtick", ";">>,
                  <<>>, decoratedClassContent >>
  IN [imports |-> imports, classContent |-> classContent,
      componentName |-> componentName, allImports |-> allImports,
      decoratedClassContent |-> decoratedClassContent,
      templateLiteral |-> templateLiteral,
      templateValue |-> TemplateValue(templateLiteral),
      finalScript |-> Join(SelectSeq(parts, LAMBDA part : part # <<>>), <<"\n">>)]

-----------------------------------------------------------------------------
(* The module specification: load synthesizes the module of a component    *)
(* whose script section is any sequence of up to MaxLines sample lines, or *)
(* whose template is any text of up to MaxChars characters.                *)

MaxLines == 3
MaxChars == 4

\* the lines that scripts are made of
SampleLines ==
  [importSingle |->
     <<"i", "m", "p", "o", "r", "t", " ", "{", " ", "c", "u", "s", "t", "o",
       "m", "E", "l", "e", "m", "e", "n", "t", " ", "}", " ", "f", "r", "o",
       "m", " ", "'", "a", "u", "r", "e", "l", "i", "a", "'", ";">>,
   importDouble |->
     <<"i", "m", "p", "o", "r", "t", " ", "{", " ", "c", "u", "s", "t", "o",
       "m", "E", "l", "e", "m", "e", "n", "t", " ", "}", " ", "f", "r", "o",
       "m", " ", "\"", "a", "u", "r", "e", "l", "i", "a", "\"", ";">>,
   importOther |->
     <<"i", "m", "p", "o", "r", "t", " ", "{", " ", "a", " ", "}", " ", "f",
       "r", "o", "m", " ", "'", ".", "/", "a", "'", ";">>,
   importBare |->
     <<"i", "m", "p", "o", "r", "t", " ", "'", ".", "/", "s", ".", "c", "s",
       "s", "'">>,
   importOpen |->
     <<"i", "m", "p", "o", "r", "t", " ", "{">>,
   importClose |->
     <<" ", " ", "a", " ", "}", " ", "f", "r", "o", "m", " ", "'", ".", "/",
       "a", "'", ";">>,
   decoratorString |->
     <<"@", "c", "u", "s", "t", "o", "m", "E", "l", "e", "m", "e", "n", "t",
       "(", "backtick", "m", "y", "-", "e", "l", "backtick", ")">>,
   decoratorObject |->
     <<"@", "c", "u", "s", "t", "o", "m", "E", "l", "e", "m", "e", "n", "t",
       "(", "{", " ", "n", "a", "m", "e", ":", " ", "\"", "m", "y", "-", "e",
       "l", "\"", " ", "}", ")">>,
   decoratorLate |->
     <<"@", "c", "u", "s", "t", "o", "m", "E", "l", "e", "m", "e", "n", "t",
       "(", "{", " ", "a", "l", "i", "a", "s", "e", "s", ":", " ", "[", "]",
       ",", " ", "n", "a", "m", "e", ":", " ", "'", "m", "y", "-", "e", "l",
       "'", " ", "}", ")">>,
   classDefault |->
     <<"e", "x", "p", "o", "r", "t", " ", "d", "e", "f", "a", "u", "l", "t",
       " ", "c", "l", "a", "s", "s", " ", "M", "y", "C", "o", "m", "p", " ",
       "{", "}">>,
   classExport |->
     <<"e", "x", "p", "o", "r", "t", " ", "c", "l", "a", "s", "s", " ", "M",
       "y", "C", "o", "m", "p", " ", "{", "}">>,
   statement |->
     <<"c", "o", "n", "s", "t", " ", "x", " ", "=", " ", "1", ";">>]

InitModule ==
  /\ \/ /\ mScript \in UNION {[1..n -> {SampleLines[k] : k \in DOMAIN SampleLines}]
                                : n \in 1..MaxLines}
        /\ mTemplate = <<"<", "p", ">", "<", "/", "p", ">">>
     \/ /\ mScript = <<SampleLines.classDefault>>
        /\ mTemplate \in UNION {[1..n -> {"\\", "backtick", "$", "{", "a", "\r", "\n"}]
                                  : n \in 1..MaxChars}
  /\ mStage = 0 /\ mOut = <<>>
  /\ rId = <<>> /\ rImporter = Null /\ rStage = 0 /\ rOut1 = Null /\ rOut2 = Null
  /\ cache = <<>> /\ maxSize = 0 /\ lruClock = 0 /\ lruUsed = <<>>
  /\ lruLast = <<>>
  /\ fs = <<>> /\ fileTimeCache = <<>> /\ pending = {} /\ last = <<>> /\ hist = <<>>
  /\ sRule = <<>> /\ sStage = 0 /\ sOut = <<>>

\* load(id) on the module id of a component with this script section and
\* this template, and the evaluation of the module it returns
Synthesize ==
  /\ mStage = 0
  /\ mOut' = Synthesis(Trim(Join(mScript, <<"\n">>)), mTemplate)
  /\ mStage' = 1
  /\ UNCHANGED <<mScript, mTemplate, rvars, lvars, pvars, svars>>

NextModule == Synthesize

SpecModule == InitModule /\ [][NextModule]_vars

-----------------------------------------------------------------------------
(* Claims about the synthesized module *)

\* the number of places where p occurs in s, counted from the left without
\* overlap
RECURSIVE Occurrences(_, _)
Occurrences(s, p) ==
  IF Len(s) < Len(p) THEN 0
  ELSE IF SubSeq(s, 1, Len(p)) = p
  THEN 1 + Occurrences(SubSeq(s, Len(p) + 1, Len(s)), p)
  ELSE Occurrences(Tail(s), p)

HasCarriageReturn(s) == \E i \in 1..Len(s) : s[i] = "\r"

\* C25 (as claimed): for every template text, evaluating the emitted
\* template literal yields exactly the original text.
C25_FaithfulEmbedding ==
  mStage = 1 => mOut.templateValue = {mTemplate}

\* C25 (amended): for every template text without carriage returns,
\* evaluating the emitted template literal yields exactly the original text,
\* and the literal has one added backslash for every backslash, every
\* backtick and every ${ of the text and no other.
C25_FaithfulWithoutCR ==
  (mStage = 1 /\ ~HasCarriageReturn(mTemplate)) =>
    /\ mOut.templateValue = {mTemplate}
    /\ Len(mOut.templateLiteral) =
         Len(mTemplate) + Occurrences(mTemplate, <<"\\">>)
           + Occurrences(mTemplate, <<"backtick">>)
           + Occurrences(mTemplate, <<"$", "{">>)

\* C25 witness: a text with a backslash, a backtick and ${ was embedded and
\* evaluates to itself.
C25_Witness ==
  /\ mStage = 1 /\ ~HasCarriageReturn(mTemplate)
  /\ Occurrences(mTemplate, <<"\\">>) > 0
  /\ Occurrences(mTemplate, <<"backtick">>) > 0
  /\ Occurrences(mTemplate, <<"$", "{">>) > 0
  /\ mOut.templateValue = {mTemplate}

ImportLines ==
  {SampleLines.importSingle, SampleLines.importDouble, SampleLines.importOther,
   SampleLines.importBare, SampleLines.importOpen, SampleLines.importClose}
DecoratorLines ==
  {SampleLines.decoratorString, SampleLines.decoratorObject, SampleLines.decoratorLate}
ClassLines == {SampleLines.classDefault, SampleLines.classExport}

\* the script is one a component author writes: an import that opens a
\* brace is closed on the next line, and nothing else closes one
WellFormedScript ==
  \A i \in 1..Len(mScript) :
    /\ mScript[i] = SampleLines.importOpen =>
         (i < Len(mScript) /\ mScript[i + 1] = SampleLines.importClose)
    /\ mScript[i] = SampleLines.importClose =>
         (i > 1 /\ mScript[i - 1] = SampleLines.importOpen)

\* the import statements of the lines from i on, a statement over two lines
\* joined by a line end
RECURSIVE StatementsFrom(_)
StatementsFrom(i) ==
  IF i > Len(mScript) THEN <<>>
  ELSE IF mScript[i] = SampleLines.importOpen
  THEN <<SampleLines.importOpen \o <<"\n">> \o SampleLines.importClose>>
         \o StatementsFrom(i + 2)
  ELSE IF mScript[i] \in ImportLines THEN <<mScript[i]>> \o StatementsFrom(i + 1)
  ELSE StatementsFrom(i + 1)

\* the lines of the script that belong to no import statement, in order
BodyLines == SelectSeq(mScript, LAMBDA line : line \notin ImportLines)

\* the returned imports are the script's import statements, each once and
\* in order of first occurrence, and the body is the other lines in order
ExtractedAsClaimed ==
  /\ mOut.classContent = Join(BodyLines, <<"\n">>)
  /\ \A i, j \in 1..Len(mOut.imports) : i # j => mOut.imports[i] # mOut.imports[j]
  /\ {mOut.imports[i] : i \in 1..Len(mOut.imports)}
       = {StatementsFrom(1)[i] : i \in 1..Len(StatementsFrom(1))}
  /\ \A i, j \in 1..Len(mOut.imports) :
       i < j => \E k, l \in 1..Len(StatementsFrom(1)) :
                  /\ k < l
                  /\ StatementsFrom(1)[k] = mOut.imports[i]
                  /\ StatementsFrom(1)[l] = mOut.imports[j]

\* C29 (as claimed): extractImportsAndContent partitions the lines of the
\* script: every import statement, on one line or on two, is returned once
\* and removed from the body as a whole, no other line is absorbed into an
\* import or dropped, and the body lines keep their order.
C29_ExtractPartitions ==
  (mStage = 1 /\ WellFormedScript) => ExtractedAsClaimed

\* the class declaration of the script, when there is exactly one
TheClassLine == CHOOSE line \in ClassLines : \E i \in 1..Len(mScript) : mScript[i] = line

OneClass ==
  Cardinality({i \in 1..Len(mScript) : mScript[i] \in ClassLines}) = 1

\* the start of the template constant declaration, on a line of its own
TemplateDeclaration ==
  <<"\n", "c", "o", "n", "s", "t", " ", "t", "e", "m", "p", "l", "a", "t",
    "e", " ", "=", " ", "backtick">>
DecorationOpen ==
  <<"@", "c", "u", "s", "t", "o", "m", "E", "l", "e", "m", "e", "n", "t",
    "(", "{", " ", "n", "a", "m", "e", ":", " ", "'">>
DecorationClose ==
  <<"'", ",", " ", "t", "e", "m", "p", "l", "a", "t", "e", " ", "}", ")",
    "\n">>

\* C22 (as claimed): for every script whose imports are extracted as
\* claimed and that declares one component class, the module text has the
\* template constant declaration and, on the line before the class
\* declaration, a customElement decoration with the component name and the
\* template constant.
C22_ModuleDecorated ==
  (mStage = 1 /\ WellFormedScript /\ ExtractedAsClaimed /\ OneClass) =>
    /\ Includes(mOut.finalScript, TemplateDeclaration)
    /\ Includes(mOut.finalScript,
                DecorationOpen \o mOut.componentName \o DecorationClose
                  \o TheClassLine)

\* the name the sample decorators declare
MY_EL ==
  <<"m", "y", "-", "e", "l">>
\* the kebab-case form of MyComp
MY_COMP ==
  <<"m", "y", "-", "c", "o", "m", "p">>
ANONYMOUS ==
  <<"a", "n", "o", "n", "y", "m", "o", "u", "s", "-", "c", "o", "m", "p",
    "o", "n", "e", "n", "t">>

\* C23 (as claimed): the component name is the explicitly declared name
\* whenever a customElement decorator declares one, in object style or
\* string style and in any quotes; otherwise the kebab-case form of the
\* declared class identifier; otherwise 'anonymous-component'.
C23_ComponentName ==
  (mStage = 1 /\ WellFormedScript /\ ExtractedAsClaimed) =>
    mOut.componentName =
      IF \E i \in 1..Len(mScript) : mScript[i] \in DecoratorLines THEN MY_EL
      ELSE IF \E i \in 1..Len(mScript) : mScript[i] \in ClassLines THEN MY_COMP
      ELSE ANONYMOUS

CUSTOM_ELEMENT ==
  <<"c", "u", "s", "t", "o", "m", "E", "l", "e", "m", "e", "n", "t">>

\* C24 (as claimed): the import set of the synthesized module imports
\* customElement exactly once, in whatever form the script imports it.
C24_CustomElementImportedOnce ==
  (mStage = 1 /\ WellFormedScript /\ ExtractedAsClaimed) =>
    Cardinality({i \in 1..Len(mOut.allImports) :
                   Includes(mOut.allImports[i], CUSTOM_ELEMENT)}) = 1

=============================================================================
